---------------------------- MODULE Spec2Model ----------------------------
(***************************************************************************)
(* The RunPod job client of gpu_cli.py and local_bridge.py: one submission *)
(* to the run endpoint followed by the polling loop of poll_for_result.    *)
(*                                                                         *)
(* Time is a discrete clock `now` (seconds).  Local computation takes no   *)
(* time; the clock advances only inside the blocking calls: the latency of *)
(* requests.post / requests.get, and time.sleep(2), which sleeps at least  *)
(* 2 seconds.  The remote endpoint is the environment: it chooses every    *)
(* reply and its latency, and it may never reply at all (neither           *)
(* requests.post nor requests.get is given a timeout).                     *)
(*                                                                         *)
(* The code signals every failure by printing a message and sys.exit(1);   *)
(* `outcome` names the failure after the place of the exit:                *)
(*   ConfigurationError  validate_config / the checks opening send_request *)
(*   SubmissionError     the except clause of send_to_gpu / send_request   *)
(*   StatusQueryError    the except clause of poll_for_result              *)
(*   JobFailedError      the FAILED branch of poll_for_result              *)
(*   TimeoutError        the elapsed_time > max_wait_time branch           *)
(* A reply is a 2xx response with a JSON object as body, a non-2xx         *)
(* response (raise_for_status raises HTTPError) or a transport error; both *)
(* of the latter are requests.exceptions.RequestException.                 *)
(***************************************************************************)
EXTENDS Integers, Sequences, FiniteSets, TLC

\* ------------------------------------------------------------------ bounds
MaxWait == 4
MaxLatency == 2
MaxOversleep == 1

\* --------------------------------------------------------------- constants
SleepSeconds == 2

KEY_PLACEHOLDER == "YOUR_API_KEY_HERE"
ENDPOINT_PLACEHOLDER == "YOUR_ENDPOINT_ID_HERE"

\* Python's None, for a JSON body, a string and a number.
NoBody == [null |-> "null"]
NoStr == "<None>"
NoInt == 0 - 1

\* ------------------------------------------------------------------ inputs
\* The placeholder the file ships with, a real key, and a key left empty.
ApiKeys == {KEY_PLACEHOLDER, "rp_key", ""}
EndpointIds == {ENDPOINT_PLACEHOLDER, "ep1"}
Prompts == {"Hello GPU!", ""}
JobIds == {"abc", "xyz"}

\* The entry points of the two files.
Entries ==
    { <<"gpu_cli", "send">>, <<"gpu_cli", "status">>,
      <<"gpu_cli", "send_to_gpu">>, <<"gpu_cli", "poll_for_result">>,
      <<"local_bridge", "send_request">>, <<"local_bridge", "poll_for_result">> }

\* JSON bodies the run endpoint may answer with (2xx).
RunBodies ==
    { [id |-> "abc"], [id |-> "xyz", status |-> "IN_QUEUE"],
      [status |-> "COMPLETED", output |-> "direct"],
      [status |-> "IN_QUEUE"], [output |-> "direct"] }

\* JSON bodies the status endpoint may answer with (2xx).
StatusBodies ==
    { [status |-> "IN_QUEUE"], [status |-> "IN_PROGRESS"],
      [status |-> "COMPLETED", output |-> "hi"], [status |-> "COMPLETED"],
      [status |-> "FAILED", error |-> "oom"],
      [status |-> "CANCELLED"], [output |-> "hi"] }

ErrorCodes == {401, 500}

OkReply(b) == [kind |-> "ok", code |-> 200, body |-> b]
HttpError(c) == [kind |-> "http_error", code |-> c, body |-> NoBody]
TransportError == [kind |-> "transport_error", code |-> NoInt, body |-> NoBody]

Failures == {HttpError(c) : c \in ErrorCodes} \cup {TransportError}
RunReplies == {OkReply(b) : b \in RunBodies} \cup Failures
StatusReplies == {OkReply(b) : b \in StatusBodies} \cup Failures

NoResponse == [kind |-> "none", code |-> NoInt, body |-> NoBody]

NoRequest == [method |-> "", endpoint |-> "", path |-> "", job |-> "",
              auth |-> "", body |-> NoBody, at |-> NoInt]

VARIABLES
    impl,               \* "gpu_cli" or "local_bridge"
    entry,              \* the function or command that was invoked
    RUNPOD_API_KEY,     \* module-level configuration
    RUNPOD_ENDPOINT_ID,
    prompt,             \* argument of send / send_to_gpu / send_request
    max_wait_time,      \* argument (--wait)
    pc,                 \* position of the single thread of control
    now,                \* time.time()
    response,           \* what the last answered request.post / get gave
    run_result,         \* result of send_to_gpu / send_request
    start_time,         \* locals of poll_for_result
    elapsed_time,
    job_id,
    result,             \* result of poll_for_result: the last parsed body
    bar,                \* position of click's progress bar (gpu_cli)
    request,            \* the last request sent
    pending,            \* TRUE while that request has not been answered
    runCalls,           \* number of requests.post calls made
    statusCalls,        \* number of requests.get calls made
    responses,          \* number of 2xx status responses received
    allInProgress,      \* every status query so far was answered IN_PROGRESS
    outcome,            \* "running", "returned" or the failure
    retval,             \* the value returned to the caller
    detail,             \* what the failure message carries
    exit_code           \* the process's exit code, NoInt while there is none

vars == << impl, entry, RUNPOD_API_KEY, RUNPOD_ENDPOINT_ID, prompt,
           max_wait_time, pc, now, response, run_result, start_time,
           elapsed_time, job_id, result,
           bar, request, pending, runCalls, statusCalls, responses,
           allInProgress, outcome, retval, detail, exit_code >>

inputs == << impl, entry, RUNPOD_API_KEY, RUNPOD_ENDPOINT_ID, prompt,
             max_wait_time >>
net == << request, pending, runCalls, statusCalls >>
answers == << response, run_result, responses, allInProgress >>
locals == << start_time, elapsed_time, job_id, result, bar >>
ending == << outcome, retval, detail, exit_code >>

\* ----------------------------------------------------------------- helpers

\* "key" in result
Has(body, key) == key \in DOMAIN body

\* result.get("status")
Get(body, key) == IF Has(body, key) THEN body[key] ELSE NoStr

\* What a failure message carries: a status code and a body.
Detail(code, body) == [code |-> code, body |-> body]
NoDetail == Detail(NoInt, NoBody)

\* sys.exit(1) with the message printed before it
Exit1(kind, carried) ==
    /\ pc' = "done"
    /\ outcome' = kind
    /\ detail' = carried
    /\ exit_code' = 1
    /\ retval' = NoBody

\* `return result` of send_to_gpu / send_request / poll_for_result.  Under
\* the send command the rest of send prints it and the process ends with
\* exit code 0; a function called directly hands it to its caller.
Return(value) ==
    /\ pc' = "done"
    /\ outcome' = "returned"
    /\ retval' = value
    /\ detail' = NoDetail
    /\ exit_code' = IF entry = "send" THEN 0 ELSE NoInt

\* ------------------------------------------------------------------- Init
Init ==
    /\ \E e \in Entries :
          /\ impl = e[1]
          /\ entry = e[2]
          /\ prompt \in (IF e[2] \in {"status", "poll_for_result"}
                         THEN {""} ELSE Prompts)
          /\ job_id \in (IF e[2] = "poll_for_result" THEN JobIds ELSE {NoStr})
          /\ max_wait_time \in (IF e[2] = "status" THEN {0} ELSE 0..MaxWait)
          /\ pc = CASE e[2] \in {"send", "status"} -> "validate_config"
                    [] e[2] = "send_request" -> "validate_config"
                    [] e[2] = "send_to_gpu" -> "post"
                    [] OTHER -> "poll_start"
    /\ RUNPOD_API_KEY \in ApiKeys
    /\ RUNPOD_ENDPOINT_ID \in EndpointIds
    /\ now = 0
    /\ response = NoResponse
    /\ run_result = NoBody
    /\ start_time = NoInt
    /\ elapsed_time = NoInt
    /\ result = NoBody
    /\ bar = 0
    /\ request = NoRequest
    /\ pending = FALSE
    /\ runCalls = 0
    /\ statusCalls = 0
    /\ responses = 0
    /\ allInProgress = TRUE
    /\ outcome = "running"
    /\ retval = NoBody
    /\ detail = NoDetail
    /\ exit_code = NoInt

\* ---------------------------------------------------------------- actions

\* validate_config() of gpu_cli (first statement of send and of status) and
\* the two checks that open send_request of local_bridge.
ConfigOk ==
    /\ RUNPOD_API_KEY # KEY_PLACEHOLDER
    /\ RUNPOD_ENDPOINT_ID # ENDPOINT_PLACEHOLDER

ValidateConfig ==
    /\ pc = "validate_config"
    /\ IF ~ConfigOk
         THEN Exit1("ConfigurationError", NoDetail)
         ELSE IF entry = "status"
                 THEN /\ pc' = "done"
                      /\ outcome' = "returned"
                      /\ exit_code' = 0
                      /\ UNCHANGED << retval, detail >>
                 ELSE /\ pc' = "post"
                      /\ UNCHANGED ending
    /\ UNCHANGED << inputs, now, locals, net, answers >>

\* payload = {"input": {"prompt": prompt}}
Payload(p) == [input |-> [prompt |-> p]]

RunRequest ==
    [method |-> "POST", endpoint |-> RUNPOD_ENDPOINT_ID, path |-> "run",
     job |-> "", auth |-> RUNPOD_API_KEY, body |-> Payload(prompt), at |-> now]

\* Mutant: the status URL is built without the job id.
StatusRequest_NoJob ==
    [method |-> "GET", endpoint |-> RUNPOD_ENDPOINT_ID, path |-> "status",
     job |-> "", auth |-> RUNPOD_API_KEY, body |-> NoBody, at |-> now]

StatusRequest ==
    [method |-> "GET", endpoint |-> RUNPOD_ENDPOINT_ID, path |-> "status",
     job |-> job_id, auth |-> RUNPOD_API_KEY, body |-> NoBody, at |-> now]

\* requests.post(endpoint_url, json=payload, headers=headers) is sent.
Post ==
    /\ pc = "post"
    /\ request' = RunRequest
    /\ pending' = TRUE
    /\ runCalls' = runCalls + 1
    /\ pc' = "run_wait"
    /\ UNCHANGED << inputs, now, locals, statusCalls, answers, ending >>

\* Mutant: a failed run call is sent once more before giving up.
HandleRunReply_Retry(r) ==
    IF r.kind # "ok"
    THEN /\ IF runCalls < 2
            THEN pc' = "post" /\ UNCHANGED ending
            ELSE Exit1("SubmissionError", Detail(r.code, r.body))
         /\ UNCHANGED << run_result, job_id >>
    ELSE /\ run_result' = r.body
         /\ IF Has(r.body, "id")
            THEN /\ job_id' = r.body["id"]
                 /\ pc' = "poll_start"
                 /\ UNCHANGED ending
            ELSE /\ Return(r.body)
                 /\ UNCHANGED job_id

\* Mutant: a synchronous answer is unwrapped to its "output" field.
HandleRunReply_UnwrapsOutput(r) ==
    IF r.kind # "ok"
    THEN /\ Exit1("SubmissionError", Detail(r.code, r.body))
         /\ UNCHANGED << run_result, job_id >>
    ELSE /\ run_result' = r.body
         /\ IF Has(r.body, "id")
            THEN /\ job_id' = r.body["id"]
                 /\ pc' = "poll_start"
                 /\ UNCHANGED ending
            ELSE /\ Return(IF Has(r.body, "output")
                           THEN [output |-> r.body["output"]] ELSE r.body)
                 /\ UNCHANGED job_id

\* Mutant: an answer without "id" that reports a status is polled as well.
HandleRunReply_PollsWithoutId(r) ==
    IF r.kind # "ok"
    THEN /\ Exit1("SubmissionError", Detail(r.code, r.body))
         /\ UNCHANGED << run_result, job_id >>
    ELSE /\ run_result' = r.body
         /\ IF Has(r.body, "id") \/ Get(r.body, "status") = "IN_QUEUE"
            THEN /\ job_id' = Get(r.body, "id")
                 /\ pc' = "poll_start"
                 /\ UNCHANGED ending
            ELSE /\ Return(r.body)
                 /\ UNCHANGED job_id

\* What send_to_gpu / send_request does with the answer to the run call.
HandleRunReply(r) ==
    IF r.kind # "ok"
    THEN /\ Exit1("SubmissionError", Detail(r.code, r.body))
         /\ UNCHANGED << run_result, job_id >>
    ELSE /\ run_result' = r.body
         /\ IF Has(r.body, "id")
            THEN /\ job_id' = r.body["id"]
                 /\ pc' = "poll_start"
                 /\ UNCHANGED ending
            ELSE /\ Return(r.body)
                 /\ UNCHANGED job_id

\* requests.post returns or raises, after some latency.
RunReply ==
    /\ pc = "run_wait"
    /\ \E r \in RunReplies, lat \in 0..MaxLatency :
          /\ now' = now + lat
          /\ response' = r
          /\ HandleRunReply(r)
    /\ pending' = FALSE
    /\ UNCHANGED << inputs, start_time, elapsed_time, result, bar, request,
                    runCalls, statusCalls, responses, allInProgress >>

\* poll_for_result up to the loop: start_time = time.time(), the bar opens.
PollStart ==
    /\ pc = "poll_start"
    /\ start_time' = now
    /\ bar' = 0
    /\ pc' = "loop"
    /\ UNCHANGED << inputs, now, elapsed_time, job_id, result, net, answers,
                    ending >>

\* Mutant: the deadline measured from the last poll, not from the start.
Elapsed_SinceLastPoll ==
    now - (IF request.method = "GET" THEN request.at ELSE start_time)

\* elapsed_time = time.time() - start_time
Elapsed == now - start_time

\* Mutant: the comparison is >=, the deadline itself already times out.
DeadlinePassed_Inclusive(elapsed) == elapsed >= max_wait_time

\* if elapsed_time > max_wait_time
DeadlinePassed(elapsed) == elapsed > max_wait_time

\* Mutant: on a timeout the loop is left and the last body is returned.
PollTimeout_Returns ==
    /\ pc = "loop"
    /\ elapsed_time' = Elapsed
    /\ DeadlinePassed(elapsed_time')
    /\ Return(result)
    /\ UNCHANGED << inputs, now, start_time, job_id, result, bar, net,
                    answers >>

\* Top of the loop, the deadline has passed: the timeout message, sys.exit(1).
PollTimeout ==
    /\ pc = "loop"
    /\ elapsed_time' = Elapsed
    /\ DeadlinePassed(elapsed_time')
    /\ Exit1("TimeoutError", NoDetail)
    /\ UNCHANGED << inputs, now, start_time, job_id, result, bar, net,
                    answers >>

\* Top of the loop, within the deadline: requests.get(status_url, ...) is sent.
PollQuery ==
    /\ pc = "loop"
    /\ elapsed_time' = Elapsed
    /\ ~DeadlinePassed(elapsed_time')
    /\ request' = StatusRequest
    /\ pending' = TRUE
    /\ statusCalls' = statusCalls + 1
    /\ pc' = "status_wait"
    /\ UNCHANGED << inputs, now, start_time, job_id, result, bar, runCalls,
                    answers, ending >>

\* bar.update(n) of click's progress bar (gpu_cli): the position advances
\* by n.
BarUpdate(n) == bar' = bar + n

\* The if / elif chain on result.get("status") of local_bridge, which has
\* no progress bar.
HandleStatusBridge(body) ==
    LET status == Get(body, "status") IN
    CASE status = "COMPLETED" ->
            Return(body)
      [] status = "FAILED" ->
            Exit1("JobFailedError", Detail(NoInt, body))
      [] status \in {"IN_QUEUE", "IN_PROGRESS"} ->
            /\ pc' = "sleep"
            /\ UNCHANGED ending
      [] OTHER ->
            /\ pc' = "sleep"
            /\ UNCHANGED ending

\* Mutant: a progress bar that is full ends the wait.
HandleStatus_BarEndsWait(body) ==
    LET status == Get(body, "status") IN
    CASE status = "COMPLETED" ->
            /\ BarUpdate(max_wait_time)
            /\ Return(body)
      [] status = "FAILED" ->
            /\ Exit1("JobFailedError", Detail(NoInt, body))
            /\ UNCHANGED bar
      [] status \in {"IN_QUEUE", "IN_PROGRESS"} ->
            /\ BarUpdate(elapsed_time)
            /\ IF bar' >= max_wait_time
               THEN Exit1("TimeoutError", NoDetail)
               ELSE pc' = "sleep" /\ UNCHANGED ending
      [] OTHER ->
            /\ pc' = "sleep"
            /\ UNCHANGED << bar, ending >>

\* Mutant: the FAILED branch is missing, FAILED falls into the else branch.
HandleStatus_FailedIgnored(body) ==
    LET status == Get(body, "status") IN
    CASE status = "COMPLETED" ->
            /\ BarUpdate(max_wait_time)
            /\ Return(body)
      [] status \in {"IN_QUEUE", "IN_PROGRESS"} ->
            /\ BarUpdate(elapsed_time)
            /\ pc' = "sleep"
            /\ UNCHANGED ending
      [] OTHER ->
            /\ pc' = "sleep"
            /\ UNCHANGED << bar, ending >>

\* Mutant: an exhaustive match, an unrecognised status is an error.
HandleStatus_UnknownIsError(body) ==
    LET status == Get(body, "status") IN
    CASE status = "COMPLETED" ->
            /\ BarUpdate(max_wait_time)
            /\ Return(body)
      [] status = "FAILED" ->
            /\ Exit1("JobFailedError", Detail(NoInt, body))
            /\ UNCHANGED bar
      [] status \in {"IN_QUEUE", "IN_PROGRESS"} ->
            /\ BarUpdate(elapsed_time)
            /\ pc' = "sleep"
            /\ UNCHANGED ending
      [] OTHER ->
            /\ Exit1("StatusQueryError", Detail(NoInt, body))
            /\ UNCHANGED bar

\* Mutant: COMPLETED returns the "output" field alone, not the body.
HandleStatus_ReturnsOutput(body) ==
    LET status == Get(body, "status") IN
    CASE status = "COMPLETED" ->
            /\ BarUpdate(max_wait_time)
            /\ Return(IF Has(body, "output")
                      THEN [output |-> body["output"]] ELSE body)
      [] status = "FAILED" ->
            /\ Exit1("JobFailedError", Detail(NoInt, body))
            /\ UNCHANGED bar
      [] status \in {"IN_QUEUE", "IN_PROGRESS"} ->
            /\ BarUpdate(elapsed_time)
            /\ pc' = "sleep"
            /\ UNCHANGED ending
      [] OTHER ->
            /\ pc' = "sleep"
            /\ UNCHANGED << bar, ending >>

\* Mutant: a status that is not recognised is taken as the final answer.
HandleStatus_UnknownReturns(body) ==
    LET status == Get(body, "status") IN
    CASE status = "COMPLETED" ->
            /\ BarUpdate(max_wait_time)
            /\ Return(body)
      [] status = "FAILED" ->
            /\ Exit1("JobFailedError", Detail(NoInt, body))
            /\ UNCHANGED bar
      [] status \in {"IN_QUEUE", "IN_PROGRESS"} ->
            /\ BarUpdate(elapsed_time)
            /\ pc' = "sleep"
            /\ UNCHANGED ending
      [] OTHER ->
            /\ Return(body)
            /\ UNCHANGED bar

\* Mutant: the else branch polls again at once, without time.sleep(2).
HandleStatus_UnknownNoSleep(body) ==
    LET status == Get(body, "status") IN
    CASE status = "COMPLETED" ->
            /\ BarUpdate(max_wait_time)
            /\ Return(body)
      [] status = "FAILED" ->
            /\ Exit1("JobFailedError", Detail(NoInt, body))
            /\ UNCHANGED bar
      [] status \in {"IN_QUEUE", "IN_PROGRESS"} ->
            /\ BarUpdate(elapsed_time)
            /\ pc' = "sleep"
            /\ UNCHANGED ending
      [] OTHER ->
            /\ pc' = "loop"
            /\ UNCHANGED << bar, ending >>

\* The if / elif chain on result.get("status") of gpu_cli.
HandleStatus(body) ==
    LET status == Get(body, "status") IN
    CASE status = "COMPLETED" ->
            /\ BarUpdate(max_wait_time)
            /\ Return(body)
      [] status = "FAILED" ->
            /\ Exit1("JobFailedError", Detail(NoInt, body))
            /\ UNCHANGED bar
      [] status \in {"IN_QUEUE", "IN_PROGRESS"} ->
            /\ BarUpdate(elapsed_time)
            /\ pc' = "sleep"
            /\ UNCHANGED ending
      [] OTHER ->
            /\ pc' = "sleep"
            /\ UNCHANGED << bar, ending >>

\* Mutant: a failed status query is taken as transient and polled again.
HandleStatusReply_RetryOnError(r) ==
    IF r.kind # "ok"
    THEN /\ pc' = "sleep"
         /\ UNCHANGED << result, bar, responses, ending >>
    ELSE /\ result' = r.body
         /\ responses' = responses + 1
         /\ IF impl = "gpu_cli"
            THEN HandleStatus(r.body)
            ELSE HandleStatusBridge(r.body) /\ UNCHANGED bar

\* Mutant: the deadline is checked again when the answer arrives.
HandleStatusReply_ChecksDeadline(r) ==
    IF r.kind # "ok"
    THEN /\ Exit1("StatusQueryError", Detail(r.code, r.body))
         /\ UNCHANGED << result, bar, responses >>
    ELSE /\ result' = r.body
         /\ responses' = responses + 1
         /\ IF now' - start_time > max_wait_time
            THEN Exit1("TimeoutError", NoDetail) /\ UNCHANGED bar
            ELSE IF impl = "gpu_cli"
                 THEN HandleStatus(r.body)
                 ELSE HandleStatusBridge(r.body) /\ UNCHANGED bar

\* What poll_for_result does with the answer to a status query.
HandleStatusReply(r) ==
    IF r.kind # "ok"
    THEN /\ Exit1("StatusQueryError", Detail(r.code, r.body))
         /\ UNCHANGED << result, bar, responses >>
    ELSE /\ result' = r.body
         /\ responses' = responses + 1
         /\ IF impl = "gpu_cli"
            THEN HandleStatus(r.body)
            ELSE HandleStatusBridge(r.body) /\ UNCHANGED bar

\* requests.get returns or raises, after some latency.
StatusReply ==
    /\ pc = "status_wait"
    /\ \E r \in StatusReplies, lat \in 0..MaxLatency :
          /\ now' = now + lat
          /\ response' = r
          /\ allInProgress' = (allInProgress /\ r = OkReply([status |-> "IN_PROGRESS"]))
          /\ HandleStatusReply(r)
    /\ pending' = FALSE
    /\ UNCHANGED << inputs, run_result, start_time, elapsed_time, job_id,
                    request, runCalls, statusCalls >>

\* time.sleep(2): at least 2 seconds pass.
Sleep ==
    /\ pc = "sleep"
    /\ \E over \in 0..MaxOversleep : now' = now + SleepSeconds + over
    /\ pc' = "loop"
    /\ UNCHANGED << inputs, locals, net, answers, ending >>

Next ==
    \/ ValidateConfig
    \/ Post
    \/ RunReply
    \/ PollStart
    \/ PollTimeout
    \/ PollQuery
    \/ StatusReply
    \/ Sleep

Spec == Init /\ [][Next]_vars

\* The steps the program takes by itself.  The interpreter keeps running
\* the single thread, and time.sleep returns; an answer to requests.post or
\* requests.get is owed by the endpoint, and neither call has a timeout.
ProgramStep ==
    \/ ValidateConfig
    \/ Post
    \/ PollStart
    \/ PollTimeout
    \/ PollQuery
    \/ Sleep

FairSpec == Spec /\ WF_vars(ProgramStep)

\* ------------------------------------------------------------------ claims

\* Await is poll_for_result; it has been invoked once start_time is set.
AwaitInvoked == start_time # NoInt

\* A status query is sent in this step.
QuerySent == statusCalls' = statusCalls + 1

\* A 2xx answer to a status query is received in this step.
StatusAnswered == pc = "status_wait" /\ response'.kind = "ok"

IsTerminal(body) == Get(body, "status") \in {"COMPLETED", "FAILED"}

\* C1: no status query is sent once more than max_wait_time seconds have
\* passed since poll_for_result was invoked; when the top of the loop finds
\* the deadline passed, poll_for_result ends with the timeout exit without
\* any network call, and none follows it.
C1_NoQueryAfterDeadline ==
    [][ /\ QuerySent =>
              /\ now - start_time <= max_wait_time
              /\ request'.at - start_time <= max_wait_time
        /\ statusCalls' # statusCalls => QuerySent
        /\ (AwaitInvoked /\ now - start_time > max_wait_time) =>
              /\ statusCalls' = statusCalls
              /\ runCalls' = runCalls
              /\ request' = request
        /\ (pc = "loop" /\ now - start_time > max_wait_time) =>
              /\ outcome' = "TimeoutError"
              /\ pc' = "done"
              /\ net' = net
        /\ outcome = "TimeoutError" => net' = net ]_vars

C1_Witness ==
    /\ outcome = "TimeoutError"
    /\ statusCalls >= 2
    /\ start_time > 0
    /\ now - start_time > max_wait_time
    /\ ~pending

\* C2: the first status response with status COMPLETED or FAILED ends
\* poll_for_result (a return for COMPLETED, the job-failed exit for FAILED),
\* and no status query is sent once a terminal status or a timeout has been
\* observed.
C2_EndsAtFirstTerminal ==
    [][ /\ (StatusAnswered /\ Get(response'.body, "status") = "COMPLETED") =>
              (pc' = "done" /\ outcome' = "returned")
        /\ (StatusAnswered /\ Get(response'.body, "status") = "FAILED") =>
              (pc' = "done" /\ outcome' = "JobFailedError")
        /\ QuerySent =>
              /\ ~IsTerminal(result)
              /\ ~(response.kind = "ok" /\ request.method = "GET"
                     /\ IsTerminal(response.body))
              /\ outcome = "running" ]_vars

C2_Witness ==
    /\ outcome = "JobFailedError"
    /\ responses >= 2
    /\ statusCalls = responses
    /\ IsTerminal(result)

\* C3: every invocation of poll_for_result eventually ends, whatever the
\* endpoint does, an endpoint that never answers a status query included.
C3_AwaitEventuallyEnds == AwaitInvoked ~> (pc = "done")

\* C4: a 2xx status response whose status is neither COMPLETED nor FAILED
\* (IN_QUEUE, IN_PROGRESS, unrecognised, or no status field) does not end
\* poll_for_result: it sleeps the interval of 2 seconds and is back at the
\* top of the loop, which sends the next query or times out.
C4_NonTerminalKeepsPolling ==
    [][ /\ (StatusAnswered /\ ~IsTerminal(response'.body)) =>
              /\ pc' = "sleep"
              /\ outcome' = "running"
              /\ exit_code' = NoInt
              /\ statusCalls' = statusCalls
        /\ pc = "sleep" =>
              /\ pc' = "loop"
              /\ now' >= now + 2
              /\ outcome' = "running"
              /\ net' = net
        /\ pc = "loop" =>
              \/ QuerySent /\ pc' = "status_wait" /\ outcome' = "running"
              \/ outcome' = "TimeoutError" /\ pc' = "done" ]_vars

C4_Witness ==
    /\ pc = "status_wait"
    /\ statusCalls = 3
    /\ responses = 2
    /\ result = [status |-> "CANCELLED"]

\* The entry points that submit a prompt.
Submits == entry \in {"send", "send_to_gpu", "send_request"}

\* C5: one submission sends exactly one request to the run endpoint, with
\* body {"input": {"prompt": P}}, whether the answer is asynchronous,
\* synchronous or a failure; the run call is never repeated.  (A submission
\* refused for its configuration has not started.)
C5_ExactlyOneRunCall ==
    /\ [](runCalls <= 1)
    /\ []((Submits /\ pc \notin {"validate_config", "post"}
              /\ outcome # "ConfigurationError") => runCalls = 1)
    /\ [][ runCalls' # runCalls =>
              /\ pending'
              /\ request'.method = "POST"
              /\ request'.path = "run"
              /\ request'.endpoint = RUNPOD_ENDPOINT_ID
              /\ request'.auth = RUNPOD_API_KEY
              /\ request'.body = [input |-> [prompt |-> prompt]] ]_vars

C5_Witness ==
    /\ pc = "done"
    /\ entry = "send_request"
    /\ prompt = "Hello GPU!"
    /\ outcome = "returned"
    /\ statusCalls >= 2
    /\ runCalls = 1

\* The run call has been answered and nothing was sent after it.
RunAnswered == request.method = "POST" /\ ~pending

\* The last status query has been answered.
QueryAnswered == request.method = "GET" /\ ~pending

\* C6: when the answer to the run call has an "id" field, the handle
\* (job_id) is exactly that id, the submission sends nothing more to the
\* run endpoint, and every status query of the job names that id.
C6_HandleIsRunId ==
    Has(run_result, "id") =>
        /\ job_id = run_result["id"]
        /\ runCalls = 1
        /\ statusCalls > 0 =>
              /\ request.method = "GET"
              /\ request.path = "status"
              /\ request.endpoint = RUNPOD_ENDPOINT_ID
              /\ request.job = run_result["id"]

C6_Witness ==
    /\ Has(run_result, "id")
    /\ run_result["id"] = "xyz"
    /\ statusCalls >= 2
    /\ request.job = "xyz"

\* C7: when the answer to the run call has no "id" field, the submission
\* returns that body unchanged and no status query is sent, whatever the
\* body holds.
C7_NoIdReturnsBody ==
    (RunAnswered /\ response.kind = "ok" /\ ~Has(response.body, "id")) =>
        /\ pc = "done"
        /\ outcome = "returned"
        /\ retval = response.body
        /\ job_id = NoStr
        /\ statusCalls = 0
        /\ runCalls = 1

C7_Witness ==
    /\ pc = "done"
    /\ RunAnswered
    /\ retval = [status |-> "IN_QUEUE"]
    /\ statusCalls = 0

\* C8: when the run call fails (transport error or non-2xx response), the
\* submission ends with the submission-error exit: no job id, no status
\* query, and the run call is not repeated.
C8_RunFailureIsFatal ==
    /\ (RunAnswered /\ response.kind \in {"http_error", "transport_error"}) =>
          /\ pc = "done"
          /\ outcome = "SubmissionError"
          /\ exit_code = 1
          /\ detail.code = response.code
          /\ job_id = NoStr
          /\ statusCalls = 0
          /\ runCalls = 1
    /\ outcome = "SubmissionError" =>
          (RunAnswered /\ response.kind # "ok")

C8_Witness ==
    /\ outcome = "SubmissionError"
    /\ entry = "send"
    /\ response.kind = "http_error"
    /\ detail.code = 401

\* C9: when a status query fails (transport error or non-2xx response),
\* poll_for_result ends at once with the status-query-error exit: the query
\* is not repeated and no other query follows, time left or not.
C9_QueryFailureIsFatal ==
    /\ (QueryAnswered /\ response.kind \in {"http_error", "transport_error"}) =>
          /\ pc = "done"
          /\ outcome = "StatusQueryError"
          /\ exit_code = 1
          /\ detail.code = response.code
    /\ outcome = "StatusQueryError" =>
          (QueryAnswered /\ response.kind # "ok")

C9_Witness ==
    /\ outcome = "StatusQueryError"
    /\ statusCalls = 2
    /\ responses = 1
    /\ now - start_time < max_wait_time

\* C10: what poll_for_result delivers is the body of the terminal status
\* response, unchanged: on COMPLETED the return value is that body, after as
\* many queries as there were responses (n non-terminal ones and the
\* COMPLETED one: n + 1), and on FAILED the failure carries the whole body.
C10_DeliversTerminalBody ==
    /\ (outcome = "returned" /\ statusCalls > 0) =>
          /\ QueryAnswered
          /\ response.kind = "ok"
          /\ Get(response.body, "status") = "COMPLETED"
          /\ retval = response.body
          /\ statusCalls = responses
    /\ outcome = "JobFailedError" =>
          /\ QueryAnswered
          /\ response.kind = "ok"
          /\ Get(response.body, "status") = "FAILED"
          /\ detail.body = response.body
          /\ statusCalls = responses

C10_Witness ==
    /\ outcome = "returned"
    /\ statusCalls = 3
    /\ now - start_time <= max_wait_time
    /\ retval = [status |-> "COMPLETED", output |-> "hi"]

\* C11 as stated: with every status response IN_PROGRESS, max_wait_time 4
\* and the sleep of 2 seconds, the timeout exit comes after 2 status queries.
C11_TimeoutAfterTwoQueries ==
    (outcome = "TimeoutError" /\ allInProgress /\ max_wait_time = 4) =>
        statusCalls = 2

\* C11, amended: in that scenario the timeout exit comes at the first top
\* of the loop with more than 4 seconds elapsed, after 1 to 3 status
\* queries; when the queries take no time and each sleep exactly 2 seconds
\* the queries go out at 0, 2 and 4 seconds (4 > 4 is false) and the timeout
\* exit comes after 3 queries, at 6 seconds.
C11_TimeoutWithinThreeQueries ==
    (outcome = "TimeoutError" /\ allInProgress /\ max_wait_time = 4) =>
        /\ statusCalls \in 1..3
        /\ responses = statusCalls
        /\ elapsed_time > 4
        /\ elapsed_time = now - start_time
        /\ elapsed_time >= 2 * statusCalls

C11_Witness ==
    /\ outcome = "TimeoutError"
    /\ allInProgress
    /\ max_wait_time = 4
    /\ statusCalls = 3
    /\ elapsed_time = 6

\* C12: when poll_for_result returns normally, the last status response it
\* saw was COMPLETED; a response with any other status (IN_QUEUE,
\* IN_PROGRESS, unrecognised, missing) never hands a result to the caller.
C12_ReturnOnlyOnCompleted ==
    /\ []((AwaitInvoked /\ outcome = "returned") =>
              /\ response.kind = "ok"
              /\ Get(response.body, "status") = "COMPLETED"
              /\ Get(retval, "status") = "COMPLETED")
    /\ [][ (StatusAnswered /\ Get(response'.body, "status") # "COMPLETED") =>
              (outcome' # "returned" /\ retval' = NoBody) ]_vars

C12_Witness ==
    /\ AwaitInvoked
    /\ outcome = "returned"
    /\ responses >= 2
    /\ retval = [status |-> "COMPLETED"]

\* What the environment and the configuration give the send command to
\* fail on: a placeholder in the configuration, a failed run call or status
\* query, or a last status response that is not COMPLETED (FAILED, or a
\* non-terminal one that the timeout followed).
SendFailure ==
    \/ RUNPOD_API_KEY = "YOUR_API_KEY_HERE"
    \/ RUNPOD_ENDPOINT_ID = "YOUR_ENDPOINT_ID_HERE"
    \/ response.kind \in {"http_error", "transport_error"}
    \/ QueryAnswered /\ Get(response.body, "status") # "COMPLETED"

ConfigInvalid ==
    \/ RUNPOD_API_KEY \in {"", "YOUR_API_KEY_HERE"}
    \/ RUNPOD_ENDPOINT_ID \in {"", "YOUR_ENDPOINT_ID_HERE"}

\* C14: while the credential or the endpoint identifier is missing or still
\* the placeholder, no entry point of submission or polling sends a request
\* (run or status), and the status command checks the configuration without
\* calling the endpoint.
C14_NoCallWithoutValidConfig ==
    /\ ConfigInvalid => (runCalls = 0 /\ statusCalls = 0 /\ request = NoRequest)
    /\ entry = "status" => (runCalls = 0 /\ statusCalls = 0)

\* C16: between two consecutive status queries of one poll_for_result lies
\* a time.sleep(2), after every non-terminal response, so a status query is
\* never sent less than 2 seconds after the one before it.
C16_QueriesTwoSecondsApart ==
    [][ /\ (QuerySent /\ statusCalls >= 1) =>
              /\ request.method = "GET"
              /\ ~pending
              /\ now - request.at >= 2
              /\ request'.at - request.at >= 2
        /\ (StatusAnswered /\ pc' # "done") => (pc' = "sleep")
        /\ (pc = "sleep") => (now' - now >= 2 /\ statusCalls' = statusCalls) ]_vars

C16_Witness ==
    /\ pc = "status_wait"
    /\ statusCalls = 2
    /\ request.at - start_time = 2

\* C17: the progress bar never affects control flow or timing: on the same
\* status response and the same clock readings, poll_for_result of gpu_cli
\* (with the bar) moves exactly as poll_for_result of local_bridge (without
\* it) does: the same return, exit or sleep, the same payload, and at the
\* top of the loop the same choice between the next query and the timeout.
C17_BarIsPassive ==
    [][ impl = "gpu_cli" =>
          /\ StatusAnswered => HandleStatusBridge(response'.body)
          /\ (pc = "loop") =>
                (QuerySent <=> now - start_time <= max_wait_time)
          /\ (pc = "sleep") => (pc' = "loop" /\ bar' = bar) ]_vars

C17_Witness ==
    /\ impl = "gpu_cli"
    /\ bar >= max_wait_time
    /\ max_wait_time > 0
    /\ pc = "sleep"
    /\ statusCalls >= 2

\* C18: at most one request of a job is outstanding at any time: a request
\* is sent only when none is pending, the first status query follows a run
\* call that returned successfully with an id, and each status query has
\* been answered before the next one is sent.
C18_OneRequestAtATime ==
    [][ /\ QuerySent =>
              /\ ~pending
              /\ pending'
              /\ Submits =>
                    /\ runCalls = 1
                    /\ Has(run_result, "id")
                    /\ request'.job = run_result["id"]
              /\ statusCalls >= 1 =>
                    (request.method = "GET" /\ response.kind = "ok")
        /\ runCalls' # runCalls => (~pending /\ pending' /\ statusCalls = 0)
        /\ pending =>
              /\ request' = request
              /\ runCalls' = runCalls
              /\ statusCalls' = statusCalls ]_vars

C18_Witness ==
    /\ pc = "status_wait"
    /\ pending
    /\ runCalls = 1
    /\ statusCalls = 2
    /\ responses = 1

\* C19: the deadline is checked only at the top of the loop, before a query
\* is sent: a response that arrives after max_wait_time has elapsed, to a
\* query sent within it, is still returned when COMPLETED and still ends in
\* the job-failed exit when FAILED; the timeout exit never replaces a
\* terminal response already received.
C19_LateTerminalResponseCounts ==
    [][ /\ (StatusAnswered /\ now' - start_time > max_wait_time
              /\ Get(response'.body, "status") = "COMPLETED") =>
              (outcome' = "returned" /\ retval' = response'.body)
        /\ (StatusAnswered /\ now' - start_time > max_wait_time
              /\ Get(response'.body, "status") = "FAILED") =>
              (outcome' = "JobFailedError" /\ detail'.body = response'.body)
        /\ (outcome # "TimeoutError" /\ outcome' = "TimeoutError") =>
              /\ pc = "loop"
              /\ ~pending
              /\ ~IsTerminal(result)
              /\ ~IsTerminal(response.body) ]_vars

C19_Witness ==
    /\ AwaitInvoked
    /\ outcome = "returned"
    /\ request.at - start_time <= max_wait_time
    /\ now - start_time > max_wait_time

\* C20: one poll_for_result(job_id, t), t >= 0, sends at most
\* floor(t / 2) + 1 status queries, whatever the responses and latencies.
C20_QueriesBoundedByBudget ==
    /\ max_wait_time >= 0
    /\ statusCalls <= (max_wait_time \div 2) + 1
    /\ (statusCalls >= 1) =>
          (request.at - start_time >= 2 * (statusCalls - 1))

C20_Witness ==
    /\ max_wait_time = 4
    /\ statusCalls = 3
    /\ pc = "done"

=============================================================================
